---- MODULE Spec2Model ----
(***************************************************************************)
(* Model of the TypeScript worker of monaco-editor                         *)
(* (src/esm/vs/language/typescript/tsWorker.js): the language service host *)
(* over mirror models, the built-in lib file map and the extra libs, the   *)
(* proxied language features with clearFiles, and the create factory.      *)
(*                                                                         *)
(* JavaScript strings are modelled as sequences of one-character strings,  *)
(* so that concatenation, lastIndexOf, substr and Number -> String are     *)
(* computed the way the code computes them.  JavaScript's undefined is     *)
(* modelled by a record with defined = FALSE.                              *)
(***************************************************************************)
EXTENDS Integers, Sequences, FiniteSets, TLC

VARIABLES
    models,           \* this._ctx.getMirrorModels(): sequence of [uri, version, value]
    extraLibs,        \* this._extraLibs: fileName -> [content, version]
    compilerOptions,  \* this._compilerOptions: [target, allowJs]
    libFileMap,       \* the imported libFileMap: fileName -> text (never assigned)
    ret,              \* the last operation and what it returned
    env               \* what lies outside the worker object: the worker globals seen
                      \* by create, and what this._languageService does when called

vars == <<models, extraLibs, compilerOptions, libFileMap, ret, env>>

-----------------------------------------------------------------------------
(* Bounds *)

\* highest version a mirror model reaches
MaxVersion == 2
\* longest diagnostics array the language service returns
MaxDiags == 2

-----------------------------------------------------------------------------
(* File names, as character sequences *)

A_TS      == <<"a", ".", "t", "s">>
A_TSX     == <<"a", ".", "t", "s", "x">>
A_JS      == <<"a", ".", "j", "s">>
A_JSX     == <<"a", ".", "j", "s", "x">>
A_TXT     == <<"a", ".", "t", "x", "t">>
A_DOT     == <<"a", ".">>
A_JS_TS    == <<"a", ".", "j", "s", ".", "t", "s">>
BARE_TS   == <<"t", "s">>
BARE_JS   == <<"j", "s">>
BARE_TSX  == <<"t", "s", "x">>
README    == <<"R", "E", "A", "D", "M", "E">>
ES6       == <<"e", "s", "6">>
LIB_D_TS  == <<"l", "i", "b", ".", "d", ".", "t", "s">>
LIB_ES6   == <<"l", "i", "b", ".", "e", "s", "6", ".", "d", ".", "t", "s">>
LIB_ES2015 == <<"l", "i", "b", ".", "e", "s", "2", "0", "1", "5", ".", "f", "u", "l", "l", ".", "d", ".", "t", "s">>
LIB_ES2017 == <<"l", "i", "b", ".", "e", "s", "2", "0", "1", "7", ".", "f", "u", "l", "l", ".", "d", ".", "t", "s">>
LIB_ES2112 == <<"l", "i", "b", ".", "e", "s", "2", "1", "1", "2", ".", "f", "u", "l", "l", ".", "d", ".", "t", "s">>
LIB_ESNEXT == <<"l", "i", "b", ".", "e", "s", "n", "e", "x", "t", ".", "f", "u", "l", "l", ".", "d", ".", "t", "s">>

\* the file names the host is asked about
FileNames == {A_TS, ES6, LIB_D_TS, LIB_ES6, LIB_ES2017, README}

\* the file names getScriptKind is asked about
KindNames == {A_TS, A_TSX, A_JS, A_JSX, A_TXT, A_DOT, A_JS_TS, BARE_TS, BARE_JS,
              BARE_TSX, README, ES6, LIB_D_TS}

\* uris of the documents the editor opens
Uris == {A_TS, ES6}

\* texts of editor documents, and contents of extra libs
DocTexts      == {<< >>, <<"m">>}
ExtraContents == {<<"e">>, <<"f">>}

\* names under which extra libs are registered
ExtraKeys == {ES6, LIB_ES2017, LIB_ESNEXT}

\* extra lib entries: a first content, a changed content under the same
\* version, and a changed content under a new version
ExtraLibEntries ==
    { [content |-> <<"e">>, version |-> 1],
      [content |-> <<"f">>, version |-> 1],
      [content |-> <<"f">>, version |-> 2] }

\* the mappings updateExtraLibs / createData.extraLibs may carry, over keys in Keys
ExtraLibMapsOver(Keys) == UNION { [K -> ExtraLibEntries] : K \in SUBSET Keys }

ExtraLibMaps == ExtraLibMapsOver(ExtraKeys)

\* the mappings used while documents are open and edited
HostExtraLibMaps == ExtraLibMapsOver({ES6, LIB_ES2017})

\* the text the bundle holds under name k
LibText(k) == <<"#">> \o k

LibMapOver(K) == [k \in K |-> LibText(k)]

\* bundles of built-in declaration files
HostLibFileMaps ==
    { LibMapOver({LIB_D_TS, LIB_ES6}),
      LibMapOver({LIB_D_TS, LIB_ES6, ES6}),
      LibMapOver({LIB_D_TS, LIB_ES6, LIB_ES2017}) }

LibFileMaps ==
    { LibMapOver({LIB_D_TS, LIB_ES6}),
      LibMapOver({LIB_D_TS, LIB_ES6, ES6}),
      LibMapOver({LIB_D_TS, LIB_ES6, LIB_ES2015, LIB_ES2017, LIB_ESNEXT}),
      LibMapOver({LIB_D_TS, LIB_ES6, LIB_ES2112}) }

\* options.target values: ES3, ES5, ES2015, ES2017, ESNext
Targets == {0, 1, 2, 4, 99}

CompilerOptionsSet == [target : Targets, allowJs : BOOLEAN]

\* the settings used while documents are open and edited
HostCompilerOptions == [target : {1, 4}, allowJs : {FALSE}]

-----------------------------------------------------------------------------
(* JavaScript string primitives *)

Digit(d) == CASE d = 0 -> "0" [] d = 1 -> "1" [] d = 2 -> "2" [] d = 3 -> "3"
              [] d = 4 -> "4" [] d = 5 -> "5" [] d = 6 -> "6" [] d = 7 -> "7"
              [] d = 8 -> "8" [] d = 9 -> "9"

RECURSIVE NumToString(_)
\* Number.prototype.toString / String(n) for a non-negative integer
NumToString(n) ==
    IF n < 10 THEN <<Digit(n)>>
    ELSE NumToString(n \div 10) \o <<Digit(n % 10)>>

\* String.prototype.lastIndexOf(ch): 0-based index of the last ch, or -1
LastIndexOf(s, ch) ==
    LET hits == {i \in 1..Len(s) : s[i] = ch}
    IN  IF hits = {} THEN -1
        ELSE (CHOOSE i \in hits : \A j \in hits : j <= i) - 1

\* String.prototype.substr(start) with start >= 0
Substr(s, start) == SubSeq(s, start + 1, Len(s))

Undefined == [defined |-> FALSE, text |-> << >>]
Text(t)   == [defined |-> TRUE, text |-> t]


-----------------------------------------------------------------------------
(* Language service host *)

\* Object.keys(o): the keys of o in one fixed enumeration order
RECURSIVE SeqOfSet(_)
SeqOfSet(S) ==
    IF S = {} THEN << >>
    ELSE LET x == CHOOSE y \in S : TRUE IN <<x>> \o SeqOfSet(S \ {x})

ObjectKeys(o) == SeqOfSet(DOMAIN o)

getCompilationSettings == compilerOptions

\* variant: the extra libs are left out of the enumeration
getScriptFileNames_ModelsOnly ==
    [i \in 1..Len(models) |-> models[i].uri]

getScriptFileNames ==
    LET uris == [i \in 1..Len(models) |-> models[i].uri]
    IN  uris \o ObjectKeys(extraLibs)

\* index of the first mirror model whose uri is fileName; 0 stands for null
_getModel(fileName) ==
    LET hits == {i \in 1..Len(models) : models[i].uri = fileName}
    IN  IF hits = {} THEN 0
        ELSE CHOOSE i \in hits : \A j \in hits : i <= j

\* variant: only the bundled lib file map is searched
getDefaultLibFileName_BundleOnly(options) ==
    LET esnextHit == /\ options.target = 99
                     /\ LIB_ESNEXT \in DOMAIN libFileMap
        tier  == IF options.target = 0 THEN 99 ELSE options.target
        eslib == <<"l", "i", "b", ".", "e", "s">> \o NumToString(2013 + tier)
                     \o <<".", "f", "u", "l", "l", ".", "d", ".", "t", "s">>
    IN  IF esnextHit THEN LIB_ESNEXT
        ELSE IF options.target \in {0, 1} THEN LIB_D_TS
        ELSE IF eslib \in DOMAIN libFileMap THEN eslib
        ELSE LIB_ES6

getDefaultLibFileName(options) ==
    LET esnextHit == /\ options.target = 99
                     /\ (LIB_ESNEXT \in DOMAIN libFileMap \/ LIB_ESNEXT \in DOMAIN extraLibs)
        tier  == IF options.target = 0 THEN 99 ELSE options.target
        eslib == <<"l", "i", "b", ".", "e", "s">> \o NumToString(2013 + tier)
                     \o <<".", "f", "u", "l", "l", ".", "d", ".", "t", "s">>
    IN  IF esnextHit THEN LIB_ESNEXT
        ELSE IF options.target \in {0, 1} THEN LIB_D_TS
        ELSE IF eslib \in DOMAIN libFileMap \/ eslib \in DOMAIN extraLibs THEN eslib
        ELSE LIB_ES6

isDefaultLibFileName(fileName) ==
    fileName = getDefaultLibFileName(compilerOptions)

\* variant: the extra libs are consulted before the mirror models
getScriptVersion_ExtraLibsFirst(fileName) ==
    LET model == _getModel(fileName)
    IN  IF fileName \in DOMAIN extraLibs THEN NumToString(extraLibs[fileName].version)
        ELSE IF model # 0 THEN NumToString(models[model].version)
        ELSE IF isDefaultLibFileName(fileName) THEN <<"1">>
        ELSE << >>

getScriptVersion(fileName) ==
    LET model == _getModel(fileName)
    IN  IF model # 0 THEN NumToString(models[model].version)
        ELSE IF isDefaultLibFileName(fileName) THEN <<"1">>
        ELSE IF fileName \in DOMAIN extraLibs THEN NumToString(extraLibs[fileName].version)
        ELSE << >>

\* variant: the "lib.<name>.d.ts" form is tried before the exact name
_getScriptText_LibizedFirst(fileName) ==
    LET model == _getModel(fileName)
        libizedFileName == <<"l", "i", "b", ".">> \o fileName \o <<".", "d", ".", "t", "s">>
    IN  IF model # 0 THEN Text(models[model].value)
        ELSE IF libizedFileName \in DOMAIN libFileMap THEN Text(libFileMap[libizedFileName])
        ELSE IF fileName \in DOMAIN libFileMap THEN Text(libFileMap[fileName])
        ELSE IF fileName \in DOMAIN extraLibs THEN Text(extraLibs[fileName].content)
        ELSE Undefined

_getScriptText(fileName) ==
    LET model == _getModel(fileName)
        libizedFileName == <<"l", "i", "b", ".">> \o fileName \o <<".", "d", ".", "t", "s">>
    IN  IF model # 0 THEN Text(models[model].value)
        ELSE IF fileName \in DOMAIN libFileMap THEN Text(libFileMap[fileName])
        ELSE IF libizedFileName \in DOMAIN libFileMap THEN Text(libFileMap[libizedFileName])
        ELSE IF fileName \in DOMAIN extraLibs THEN Text(extraLibs[fileName].content)
        ELSE Undefined

\* the snapshot object is modelled by the text it closes over and its getLength()
getScriptSnapshot(fileName) ==
    LET text == _getScriptText(fileName)
    IN  IF ~text.defined THEN [defined |-> FALSE, text |-> << >>, length |-> 0]
        ELSE [defined |-> TRUE, text |-> text.text, length |-> Len(text.text)]

getScriptKind(fileName) ==
    LET suffix == Substr(fileName, LastIndexOf(fileName, ".") + 1)
    IN  CASE suffix = <<"t", "s">>      -> "TS"
          [] suffix = <<"t", "s", "x">> -> "TSX"
          [] suffix = <<"j", "s">>      -> "JS"
          [] suffix = <<"j", "s", "x">> -> "JSX"
          [] OTHER -> IF getCompilationSettings.allowJs THEN "JS" ELSE "TS"

-----------------------------------------------------------------------------
(* Operations on the worker; ret records the call and its result *)

hostVars == <<models, extraLibs, compilerOptions, libFileMap, env>>

\* nothing outside the worker object takes part
NoEnv == [kind |-> "none"]

GetScriptFileNames ==
    /\ ret' = [op |-> "getScriptFileNames", value |-> getScriptFileNames]
    /\ UNCHANGED hostVars

GetScriptVersion(fileName) ==
    /\ ret' = [op |-> "getScriptVersion", fileName |-> fileName,
               value |-> getScriptVersion(fileName)]
    /\ UNCHANGED hostVars

\* Promise.resolve(this._getScriptText(fileName))
GetScriptText(fileName) ==
    /\ ret' = [op |-> "getScriptText", fileName |-> fileName,
               settled |-> "resolved", value |-> _getScriptText(fileName)]
    /\ UNCHANGED hostVars

GetScriptSnapshot(fileName) ==
    /\ ret' = [op |-> "getScriptSnapshot", fileName |-> fileName,
               value |-> getScriptSnapshot(fileName)]
    /\ UNCHANGED hostVars

GetScriptKind(fileName) ==
    /\ ret' = [op |-> "getScriptKind", fileName |-> fileName,
               value |-> getScriptKind(fileName)]
    /\ UNCHANGED hostVars

GetDefaultLibFileName(options) ==
    /\ ret' = [op |-> "getDefaultLibFileName", options |-> options,
               value |-> getDefaultLibFileName(options)]
    /\ UNCHANGED hostVars

\* variant: the new entries are patched into the old mapping
UpdateExtraLibs_Merge(newExtraLibs) ==
    /\ extraLibs' = [k \in DOMAIN extraLibs \cup DOMAIN newExtraLibs |->
                       IF k \in DOMAIN newExtraLibs THEN newExtraLibs[k] ELSE extraLibs[k]]
    /\ ret' = [op |-> "updateExtraLibs", arg |-> newExtraLibs]
    /\ UNCHANGED <<models, compilerOptions, libFileMap, env>>

UpdateExtraLibs(newExtraLibs) ==
    /\ extraLibs' = newExtraLibs
    /\ ret' = [op |-> "updateExtraLibs", arg |-> newExtraLibs]
    /\ UNCHANGED <<models, compilerOptions, libFileMap, env>>

-----------------------------------------------------------------------------
(* The editor side: the mirror model directory behind this._ctx *)

IsOpen(uri) == \E i \in 1..Len(models) : models[i].uri = uri

OpenModel(uri, version, value) ==
    /\ ~IsOpen(uri)
    /\ models' = Append(models, [uri |-> uri, version |-> version, value |-> value])
    /\ ret' = [op |-> "openModel", uri |-> uri]
    /\ UNCHANGED <<extraLibs, compilerOptions, libFileMap, env>>

CloseModel(uri) ==
    /\ IsOpen(uri)
    /\ models' = SelectSeq(models, LAMBDA m : m.uri # uri)
    /\ ret' = [op |-> "closeModel", uri |-> uri]
    /\ UNCHANGED <<extraLibs, compilerOptions, libFileMap, env>>

\* a text mutation: the editor bumps the model's version
EditModel(uri, value) ==
    /\ \E i \in 1..Len(models) :
         /\ models[i].uri = uri
         /\ models[i].version < MaxVersion
         /\ models' = [models EXCEPT ![i] = [uri |-> uri,
                                             version |-> models[i].version + 1,
                                             value |-> value]]
    /\ ret' = [op |-> "editModel", uri |-> uri]
    /\ UNCHANGED <<extraLibs, compilerOptions, libFileMap, env>>

-----------------------------------------------------------------------------
(* The host over open documents, the lib bundle and the extra libs *)

Init ==
    /\ models = << >>
    /\ extraLibs \in HostExtraLibMaps
    /\ compilerOptions \in HostCompilerOptions
    /\ libFileMap \in HostLibFileMaps
    /\ ret = [op |-> "new"]
    /\ env = NoEnv

Next ==
    \/ \E uri \in Uris, version \in 1..MaxVersion, value \in DocTexts :
          OpenModel(uri, version, value)
    \/ \E uri \in Uris : CloseModel(uri)
    \/ \E uri \in Uris, value \in DocTexts : EditModel(uri, value)
    \/ \E newExtraLibs \in HostExtraLibMaps : UpdateExtraLibs(newExtraLibs)
    \/ GetScriptFileNames
    \/ \E fileName \in FileNames : GetScriptVersion(fileName)
    \/ \E fileName \in FileNames : GetScriptText(fileName)
    \/ \E fileName \in FileNames : GetScriptSnapshot(fileName)

Spec == Init /\ [][Next]_vars

-----------------------------------------------------------------------------
(* getDefaultLibFileName and getScriptKind over every bundle, every set of  *)
(* extra libs and every compiler options record                             *)

InitLib ==
    /\ models = << >>
    /\ extraLibs \in ExtraLibMaps
    /\ compilerOptions \in CompilerOptionsSet
    /\ libFileMap \in LibFileMaps
    /\ ret = [op |-> "new"]
    /\ env = NoEnv

NextLib ==
    \/ \E options \in CompilerOptionsSet : GetDefaultLibFileName(options)
    \/ \E fileName \in KindNames : GetScriptKind(fileName)

SpecLib == InitLib /\ [][NextLib]_vars

-----------------------------------------------------------------------------
(* Language features: calls forwarded to this._languageService *)

\* the file field of a diagnostic: the SourceFile object, or undefined
FileValues == {"SourceFile", "undefined"}

\* diag.relatedInformation: absent, empty, or a few entries
RelatedInformationValues ==
    { [present |-> FALSE, items |-> << >>],
      [present |-> TRUE, items |-> << >>],
      [present |-> TRUE, items |-> <<[file |-> "SourceFile", messageText |-> "related"]>>],
      [present |-> TRUE, items |-> <<[file |-> "SourceFile", messageText |-> "related"],
                                     [file |-> "undefined", messageText |-> "related"]>>] }

\* ts.Diagnostic
Diagnostics ==
    [file : FileValues, code : {1005, 2304}, relatedInformation : RelatedInformationValues]

DiagnosticLists == UNION { [1..n -> Diagnostics] : n \in 0..MaxDiags }

EngineErrors == {"TypeError", "Error: Could not find file"}

\* what the call into this._languageService does: throw error, or return
\* diagnostics (the diagnostics calls) or value (the other calls)
EngineBehaviours ==
    [kind : {"engine"}, threw : {TRUE}, error : EngineErrors,
     diagnostics : {<< >>}, value : {"undefined"}]
    \cup
    [kind : {"engine"}, threw : {FALSE}, error : {"none"},
     diagnostics : DiagnosticLists, value : {"result"}]

\* variant: only the top-level file fields are cleared
clearFiles_TopLevelOnly(diagnostics) ==
    [i \in 1..Len(diagnostics) |-> [diagnostics[i] EXCEPT !.file = "undefined"]]

clearFiles(diagnostics) ==
    [i \in 1..Len(diagnostics) |->
        LET diag    == diagnostics[i]
            related == diag.relatedInformation
        IN  [diag EXCEPT
               !.file = "undefined",
               !.relatedInformation =
                   IF related.present
                   THEN [related EXCEPT !.items =
                           [j \in 1..Len(related.items) |->
                               [related.items[j] EXCEPT !.file = "undefined"]]]
                   ELSE related]]

NoPromise == [state |-> "none", value |-> "none", reason |-> "none"]

\* Promise.resolve(value)
PromiseResolve(value) == [state |-> "resolved", value |-> value, reason |-> "none"]

\* the body `var d = engine call; return Promise.resolve(clearFiles(d))`:
\* an exception of the engine call leaves the method before any promise is made
DiagnosticsCall(op, fileName) ==
    /\ env.kind = "engine"
    /\ ret' = IF env.threw
              THEN [op |-> op, fileName |-> fileName, completion |-> "threw",
                    thrown |-> env.error, promise |-> NoPromise]
              ELSE [op |-> op, fileName |-> fileName, completion |-> "returned",
                    thrown |-> "none",
                    promise |-> PromiseResolve(clearFiles(env.diagnostics))]
    /\ UNCHANGED hostVars

\* the body `return Promise.resolve(engine call)`: the argument is evaluated
\* first, so an exception of the engine call leaves the method
ProxiedCall(op, fileName) ==
    /\ env.kind = "engine"
    /\ ret' = IF env.threw
              THEN [op |-> op, fileName |-> fileName, completion |-> "threw",
                    thrown |-> env.error, promise |-> NoPromise]
              ELSE [op |-> op, fileName |-> fileName, completion |-> "returned",
                    thrown |-> "none", promise |-> PromiseResolve(env.value)]
    /\ UNCHANGED hostVars

GetSyntacticDiagnostics(fileName)       == DiagnosticsCall("getSyntacticDiagnostics", fileName)
GetSemanticDiagnostics(fileName)        == DiagnosticsCall("getSemanticDiagnostics", fileName)
GetSuggestionDiagnostics(fileName)      == DiagnosticsCall("getSuggestionDiagnostics", fileName)
GetCompilerOptionsDiagnostics(fileName) == DiagnosticsCall("getCompilerOptionsDiagnostics", fileName)

DiagnosticsOps == {"getSyntacticDiagnostics", "getSemanticDiagnostics",
                   "getSuggestionDiagnostics", "getCompilerOptionsDiagnostics"}

ProxiedOps == {"getCompletionsAtPosition", "getCompletionEntryDetails",
               "getSignatureHelpItems", "getQuickInfoAtPosition",
               "getOccurrencesAtPosition", "getDefinitionAtPosition",
               "getReferencesAtPosition", "getNavigationBarItems",
               "getFormattingEditsForDocument", "getFormattingEditsForRange",
               "getFormattingEditsAfterKeystroke", "findRenameLocations",
               "getRenameInfo", "getEmitOutput", "getCodeFixesAtPosition"}

InitFeatures ==
    /\ models = << >>
    /\ extraLibs = << >>
    /\ compilerOptions = [target |-> 4, allowJs |-> FALSE]
    /\ libFileMap = LibMapOver({LIB_D_TS, LIB_ES6})
    /\ ret = [op |-> "new"]
    /\ env \in EngineBehaviours

NextFeatures ==
    \/ \E fileName \in {A_TS, README} : GetSyntacticDiagnostics(fileName)
    \/ \E fileName \in {A_TS, README} : GetSemanticDiagnostics(fileName)
    \/ \E fileName \in {A_TS, README} : GetSuggestionDiagnostics(fileName)
    \/ \E fileName \in {A_TS, README} : GetCompilerOptionsDiagnostics(fileName)
    \/ \E op \in ProxiedOps, fileName \in {A_TS, README} : ProxiedCall(op, fileName)

SpecFeatures == InitFeatures /\ [][NextFeatures]_vars

-----------------------------------------------------------------------------
(* create(ctx, createData) *)

\* createData.customWorkerPath: undefined, the empty string, or a path
CustomWorkerPaths == {"undefined", "", "custom.js"}

CreateDataSet ==
    [compilerOptions : CompilerOptionsSet, extraLibs : HostExtraLibMaps,
     customWorkerPath : CustomWorkerPaths]

\* the worker globals: whether importScripts is defined, and what the script
\* at customWorkerPath does when loaded: fail to load, leave
\* self.customTSWorkerFactory unset, set it to a factory that returns a
\* constructor, or set it to a factory that throws
WorkerGlobals ==
    [kind : {"globals"}, importScripts : BOOLEAN,
     script : {"fails", "silent", "registers", "registersThrowing"}]

\* `if (createData.customWorkerPath)`: undefined and "" are falsy
Truthy(path) == path \notin {"undefined", ""}

\* the constructor: new TypeScriptWorker(ctx, createData)
TypeScriptWorker(createData) ==
    /\ extraLibs' = createData.extraLibs
    /\ compilerOptions' = createData.compilerOptions
    /\ UNCHANGED <<models, libFileMap, env>>

Built(createData, class, warned, imported) ==
    /\ ret' = [op |-> "create", createData |-> createData, outcome |-> "built",
               class |-> class, warned |-> warned, imported |-> imported]
    /\ IF class = "TypeScriptWorker" THEN TypeScriptWorker(createData)
       ELSE UNCHANGED hostVars

Threw(createData, error) ==
    /\ ret' = [op |-> "create", createData |-> createData, outcome |-> "threw",
               class |-> "none", warned |-> FALSE, imported |-> TRUE, error |-> error]
    /\ UNCHANGED hostVars

\* variant: an unset self.customTSWorkerFactory falls back to the default class
Create_FallBackToDefault(createData) ==
    /\ env.kind = "globals"
    /\ ret.op = "load"
    /\ IF ~Truthy(createData.customWorkerPath)
       THEN Built(createData, "TypeScriptWorker", FALSE, FALSE)
       ELSE IF ~env.importScripts
       THEN Built(createData, "TypeScriptWorker", TRUE, FALSE)
       ELSE CASE env.script = "fails"             -> Threw(createData, "NetworkError")
              [] env.script = "silent"            -> Built(createData, "TypeScriptWorker", FALSE, TRUE)
              [] env.script = "registersThrowing" -> Threw(createData, "factory error")
              [] env.script = "registers"         -> Built(createData, "custom", FALSE, TRUE)

Create(createData) ==
    /\ env.kind = "globals"
    /\ ret.op = "load"
    /\ IF ~Truthy(createData.customWorkerPath)
       THEN Built(createData, "TypeScriptWorker", FALSE, FALSE)
       ELSE IF ~env.importScripts
       THEN Built(createData, "TypeScriptWorker", TRUE, FALSE)
       ELSE CASE env.script = "fails"             -> Threw(createData, "NetworkError")
              [] env.script = "silent"            -> Threw(createData, "does not add customTSWorkerFactory to self")
              [] env.script = "registersThrowing" -> Threw(createData, "factory error")
              [] env.script = "registers"         -> Built(createData, "custom", FALSE, TRUE)

InitCreate ==
    /\ models = << >>
    /\ extraLibs = << >>
    /\ compilerOptions = [target |-> 0, allowJs |-> FALSE]
    /\ libFileMap = LibMapOver({LIB_D_TS, LIB_ES6})
    /\ ret = [op |-> "load"]
    /\ env \in WorkerGlobals

NextCreate == \E createData \in CreateDataSet : Create(createData)

SpecCreate == InitCreate /\ [][NextCreate]_vars

-----------------------------------------------------------------------------
(* Vocabulary of the properties *)

UriSet == {models[i].uri : i \in 1..Len(models)}

Range(seq) == {seq[i] : i \in 1..Len(seq)}

Count(x, seq) == Cardinality({i \in 1..Len(seq) : seq[i] = x})

\* the open document with the given uri
ModelOf(uri) == CHOOSE m \in Range(models) : m.uri = uri

\* decimal notation of the small integers used as versions
Stringified(n) ==
    CASE n = 1 -> <<"1">> [] n = 2 -> <<"2">> [] n = 3 -> <<"3">> [] n = 4 -> <<"4">>

Shorthand(fileName) == <<"l", "i", "b", ".">> \o fileName \o <<".", "d", ".", "t", "s">>

\* which of the sources a file name is resolved from
SourceKind(fileName) ==
    CASE fileName \in UriSet -> "document"
      [] fileName \notin UriSet /\ fileName \in DOMAIN libFileMap -> "lib"
      [] fileName \notin UriSet /\ fileName \notin DOMAIN libFileMap
           /\ Shorthand(fileName) \in DOMAIN libFileMap -> "shorthand"
      [] OTHER -> IF fileName \in DOMAIN extraLibs THEN "extra" ELSE "none"

ReadOps == {"getScriptFileNames", "getScriptVersion", "getScriptText", "getScriptSnapshot"}

-----------------------------------------------------------------------------
C1_Expected(fileName) ==
    IF fileName \in UriSet THEN Stringified(ModelOf(fileName).version)
    ELSE IF fileName = getDefaultLibFileName(compilerOptions) THEN <<"1">>
    ELSE IF fileName \in DOMAIN extraLibs THEN Stringified(extraLibs[fileName].version)
    ELSE << >>

\* C1: getScriptVersion(fileName) is the open document's version as a string
\* when fileName is an open document's uri; otherwise "1" when fileName is the
\* default lib file name of the current compiler options; otherwise the extra
\* lib's version as a string when fileName is a key of the extra libs;
\* otherwise the empty string.  In particular every open document D has
\* getScriptVersion(D.uri) = D.version stringified, after any edit.
C1_ScriptVersion ==
    /\ ret.op = "getScriptVersion" => ret.value = C1_Expected(ret.fileName)
    /\ \A i \in 1..Len(models) :
         getScriptVersion(models[i].uri) = Stringified(models[i].version)

\* an edited document whose uri is also an extra lib with another version
C1_Witness ==
    /\ ret.op = "getScriptVersion"
    /\ ret.fileName = ES6
    /\ ES6 \in UriSet
    /\ ModelOf(ES6).version = 2
    /\ ES6 \in DOMAIN extraLibs
    /\ extraLibs[ES6].version = 1
    /\ ret.value = <<"2">>

-----------------------------------------------------------------------------
\* C2 (as stated): getScriptFileNames() contains exactly the union of the
\* mirror model uris and the extra lib keys, and no element occurs twice.
C2_NoDuplicates ==
    ret.op = "getScriptFileNames" =>
        /\ Range(ret.value) = UriSet \cup DOMAIN extraLibs
        /\ \A x \in Range(ret.value) : Count(x, ret.value) = 1

\* C2 (amended): getScriptFileNames() is the mirror model uris in directory
\* order followed by the extra lib keys; as a set it is exactly their union,
\* computed from the current documents and extra libs; a name occurs twice
\* exactly when it is both an open document's uri and an extra lib key, and
\* once otherwise.
C2_UnionOfCurrent ==
    ret.op = "getScriptFileNames" =>
        /\ Range(ret.value) = UriSet \cup DOMAIN extraLibs
        /\ SubSeq(ret.value, 1, Len(models)) = [i \in 1..Len(models) |-> models[i].uri]
        /\ Range(SubSeq(ret.value, Len(models) + 1, Len(ret.value))) = DOMAIN extraLibs
        /\ \A x \in Range(ret.value) :
             Count(x, ret.value) = IF x \in UriSet \cap DOMAIN extraLibs THEN 2 ELSE 1

\* two open documents and an extra lib, all of different names
C2_Witness ==
    /\ ret.op = "getScriptFileNames"
    /\ Len(models) = 2
    /\ DOMAIN extraLibs = {LIB_ES2017}
    /\ Len(ret.value) = 3

-----------------------------------------------------------------------------
C3_Expected(fileName) ==
    IF fileName \in UriSet THEN Text(ModelOf(fileName).value)
    ELSE IF fileName \in DOMAIN libFileMap THEN Text(libFileMap[fileName])
    ELSE IF Shorthand(fileName) \in DOMAIN libFileMap THEN Text(libFileMap[Shorthand(fileName)])
    ELSE IF fileName \in DOMAIN extraLibs THEN Text(extraLibs[fileName].content)
    ELSE Undefined

\* C3: the text behind getScriptText / getScriptSnapshot is, first match wins,
\* (1) the text of the open document with that uri, (2) the lib file map entry
\* of that name, (3) the lib file map entry "lib." + fileName + ".d.ts",
\* (4) the content of the extra lib of that name, (5) undefined; getScriptText
\* resolves with it, and getScriptSnapshot returns a snapshot of it exactly
\* when it is a text, the empty text included.
C3_ResolutionOrder ==
    /\ ret.op = "getScriptText" =>
         /\ ret.settled = "resolved"
         /\ ret.value = C3_Expected(ret.fileName)
    /\ ret.op = "getScriptSnapshot" =>
         /\ ret.value.defined = C3_Expected(ret.fileName).defined
         /\ ret.value.defined =>
              /\ ret.value.text = C3_Expected(ret.fileName).text
              /\ ret.value.length = Len(C3_Expected(ret.fileName).text)

\* a name in the lib file map both exactly and in shorthand form, and an extra lib
C3_Witness ==
    /\ ret.op = "getScriptText"
    /\ ret.fileName = ES6
    /\ ES6 \notin UriSet
    /\ ES6 \in DOMAIN libFileMap
    /\ LIB_ES6 \in DOMAIN libFileMap
    /\ ES6 \in DOMAIN extraLibs
    /\ ret.value = Text(libFileMap[ES6])

-----------------------------------------------------------------------------
C7_ReadSeesWhole ==
    /\ ret.op = "getScriptFileNames" =>
         Range(SubSeq(ret.value, Len(models) + 1, Len(ret.value))) = DOMAIN extraLibs
    /\ (ret.op = "getScriptVersion" /\ ret.fileName \notin UriSet
          /\ ~isDefaultLibFileName(ret.fileName)) =>
         ret.value = IF ret.fileName \in DOMAIN extraLibs
                     THEN Stringified(extraLibs[ret.fileName].version) ELSE << >>
    /\ (ret.op \in {"getScriptText", "getScriptSnapshot"}
          /\ SourceKind(ret.fileName) \in {"extra", "none"}) =>
         /\ ret.value.defined = (ret.fileName \in DOMAIN extraLibs)
         /\ ret.value.defined => ret.value.text = extraLibs[ret.fileName].content

-----------------------------------------------------------------------------
ExtraLibVersioningRespected ==
    \A k \in DOMAIN extraLibs \cap DOMAIN extraLibs' :
        extraLibs[k].content # extraLibs'[k].content =>
            extraLibs[k].version # extraLibs'[k].version

\* C10: between two states in which a file name is resolved from the same
\* kind of source, where every changed extra lib content came with a changed
\* version, a changed text comes with a changed or empty script version.
C10_VersionFollowsText ==
    [][ ExtraLibVersioningRespected =>
          \A fileName \in FileNames :
             (SourceKind(fileName) = SourceKind(fileName)'
                /\ _getScriptText(fileName) # _getScriptText(fileName)') =>
                  \/ getScriptVersion(fileName)' # getScriptVersion(fileName)
                  \/ getScriptVersion(fileName)' = << >> ]_vars

-----------------------------------------------------------------------------
YearLib(target) ==
    CASE target = 2  -> LIB_ES2015
      [] target = 4  -> LIB_ES2017
      [] target = 99 -> LIB_ES2112

InEitherRegistry(name) == name \in DOMAIN libFileMap \/ name \in DOMAIN extraLibs

C4_Expected(target) ==
    IF target \in {0, 1} THEN LIB_D_TS
    ELSE IF target = 99 /\ InEitherRegistry(LIB_ESNEXT) THEN LIB_ESNEXT
    ELSE IF InEitherRegistry(YearLib(target)) THEN YearLib(target)
    ELSE LIB_ES6

\* C4: getDefaultLibFileName({target: T}) is "lib.d.ts" for T = 0 and T = 1
\* whatever the registries hold; "lib.esnext.full.d.ts" for T = 99 when that
\* name is a key of the lib file map or of the extra libs; in every other
\* case, T = 99 without the esnext file included, "lib.es<2013+T>.full.d.ts"
\* when that name is a key of either registry, else "lib.es6.d.ts".
C4_DefaultLibFileName ==
    ret.op = "getDefaultLibFileName" => ret.value = C4_Expected(ret.options.target)

\* the 2017 tier with lib.es2017.full.d.ts supplied by the extra libs alone
C4_Witness ==
    /\ ret.op = "getDefaultLibFileName"
    /\ ret.options.target = 4
    /\ LIB_ES2017 \notin DOMAIN libFileMap
    /\ LIB_ES2017 \in DOMAIN extraLibs
    /\ ret.value = LIB_ES2017

-----------------------------------------------------------------------------
FeatureOps == DiagnosticsOps \cup ProxiedOps

\* C5: when the engine call behind a language feature throws error E, the
\* feature still returns a promise and that promise rejects with E; when the
\* engine call returns, the promise resolves with the result.
C5_RejectsWithEngineError ==
    ret.op \in FeatureOps =>
        /\ ret.completion = "returned"
        /\ env.threw =>
             /\ ret.promise.state = "rejected"
             /\ ret.promise.reason = env.error
        /\ ~env.threw => ret.promise.state = "resolved"

-----------------------------------------------------------------------------
NoFileLeft(diagnostics) ==
    \A i \in 1..Len(diagnostics) :
        /\ diagnostics[i].file = "undefined"
        /\ \A j \in 1..Len(diagnostics[i].relatedInformation.items) :
             diagnostics[i].relatedInformation.items[j].file = "undefined"

SameButFile(before, after) ==
    /\ Len(after) = Len(before)
    /\ \A i \in 1..Len(before) :
         /\ after[i].code = before[i].code
         /\ after[i].relatedInformation.present = before[i].relatedInformation.present
         /\ Len(after[i].relatedInformation.items) = Len(before[i].relatedInformation.items)
         /\ \A j \in 1..Len(before[i].relatedInformation.items) :
              after[i].relatedInformation.items[j].messageText =
                  before[i].relatedInformation.items[j].messageText

\* C6: clearFiles clears the file field of every diagnostic and of every
\* entry of every relatedInformation list, changes no other field, accepts an
\* absent or empty relatedInformation, and is idempotent; so what the four
\* diagnostics features resolve with retains no file anywhere.
C6_ClearFiles ==
    (ret.op \in DiagnosticsOps /\ ~env.threw) =>
        /\ ret.promise.state = "resolved"
        /\ NoFileLeft(ret.promise.value)
        /\ SameButFile(env.diagnostics, ret.promise.value)
        /\ clearFiles(ret.promise.value) = ret.promise.value
        /\ clearFiles(clearFiles(env.diagnostics)) = clearFiles(env.diagnostics)

\* a diagnostic without relatedInformation next to one whose related entry holds a file
C6_Witness ==
    /\ ret.op = "getSemanticDiagnostics"
    /\ ~env.threw
    /\ Len(env.diagnostics) = 2
    /\ env.diagnostics[1].file = "SourceFile"
    /\ ~env.diagnostics[1].relatedInformation.present
    /\ env.diagnostics[2].relatedInformation.present
    /\ Len(env.diagnostics[2].relatedInformation.items) = 2
    /\ ret.promise.state = "resolved"

-----------------------------------------------------------------------------
EndsWith(s, tail) ==
    /\ Len(s) >= Len(tail)
    /\ SubSeq(s, Len(s) - Len(tail) + 1, Len(s)) = tail

C8_Expected(fileName) ==
    IF EndsWith(fileName, <<".", "t", "s">>) THEN "TS"
    ELSE IF EndsWith(fileName, <<".", "t", "s", "x">>) THEN "TSX"
    ELSE IF EndsWith(fileName, <<".", "j", "s">>) THEN "JS"
    ELSE IF EndsWith(fileName, <<".", "j", "s", "x">>) THEN "JSX"
    ELSE IF compilerOptions.allowJs THEN "JS" ELSE "TS"

\* C8: getScriptKind(fileName) looks at the extension only: .ts is TS, .tsx
\* is TSX, .js is JS, .jsx is JSX; every other extension, and every name
\* without a '.', "ts" and "js" included, is JS under allowJs and TS otherwise.
C8_ExtensionOnly ==
    ret.op = "getScriptKind" => ret.value = C8_Expected(ret.fileName)

-----------------------------------------------------------------------------
\* C9 (as stated): with a customWorkerPath, create loads the script and then
\* builds the worker with the class the registered factory returns, or throws
\* and builds nothing; the default class is used only without a
\* customWorkerPath.
C9_NeverDefaultWithLocator ==
    ret.op = "create" =>
        /\ Truthy(ret.createData.customWorkerPath) =>
             /\ ret.imported
             /\ \/ ret.outcome = "built" /\ ret.class = "custom"
                \/ ret.outcome = "threw"
        /\ (ret.outcome = "built" /\ ret.class = "TypeScriptWorker") =>
             ~Truthy(ret.createData.customWorkerPath)

\* C9 (amended): with a non-empty customWorkerPath and importScripts defined,
\* create loads the script and then builds the worker with the class the
\* registered factory returns, or throws and builds nothing, as it does
\* whenever self.customTSWorkerFactory is unset after the load; with a
\* non-empty customWorkerPath and importScripts undefined it warns, loads
\* nothing and builds the default class; without a customWorkerPath it builds
\* the default class, always.  The default class is used in these two cases only.
C9_DefaultOnlyWithoutImportScripts ==
    ret.op = "create" =>
        /\ (Truthy(ret.createData.customWorkerPath) /\ env.importScripts) =>
             /\ ret.imported
             /\ \/ ret.outcome = "built" /\ ret.class = "custom"
                \/ ret.outcome = "threw" /\ extraLibs = << >>
             /\ env.script = "silent" => ret.outcome = "threw"
             /\ env.script = "registers" => ret.outcome = "built"
        /\ (Truthy(ret.createData.customWorkerPath) /\ ~env.importScripts) =>
             /\ ret.outcome = "built" /\ ret.class = "TypeScriptWorker"
             /\ ret.warned /\ ~ret.imported
        /\ ~Truthy(ret.createData.customWorkerPath) =>
             /\ ret.outcome = "built" /\ ret.class = "TypeScriptWorker"
             /\ ~ret.warned /\ ~ret.imported
        /\ (ret.outcome = "built" /\ ret.class = "TypeScriptWorker") =>
             /\ ~Truthy(ret.createData.customWorkerPath) \/ ~env.importScripts
             /\ extraLibs = ret.createData.extraLibs
             /\ compilerOptions = ret.createData.compilerOptions

\* the script was loaded and left self.customTSWorkerFactory unset
C9_Witness ==
    /\ ret.op = "create"
    /\ Truthy(ret.createData.customWorkerPath)
    /\ env.importScripts
    /\ env.script = "silent"
    /\ ret.outcome = "threw"

====
